---- MODULE Spec2Model ----
(***************************************************************************)
(* Model of Ads_BI/app.py: the load_data ETL pipeline (mapping workbook,   *)
(* metrics query, enrichment) and the goal-tracking table of main (tab6).  *)
(*                                                                         *)
(* Strings are sequences of one-character strings, so that normalisation,  *)
(* joining and concatenation are computed character by character.  A blank *)
(* spreadsheet cell (pandas NaN) is the one-element sequence NaN.          *)
(* Column names are written in ASCII:                                      *)
(*   acct = ad account, mgr = optimizer (manager), camp = campaign,        *)
(*   url = final URL, lp = landing page, cat = category,                   *)
(*   cost = spend, val = conversion value, conv = conversions.             *)
(* Floats are modelled as exact rationals <<n, d>>; <<0,0>> is NaN,        *)
(* <<1,0>> is +inf and <<-1,0>> is -inf (numpy float64 division).          *)
(***************************************************************************)
EXTENDS Integers, Sequences, FiniteSets, TLC

----------------------------------------------------------------------------
(* Bounds of the model *)

MaxMgrRows == 2

MaxBridgeRows == 2

MaxRawRows == 2

MaxGoalRows == 2

----------------------------------------------------------------------------
(* Characters and strings *)

Digits == {"0", "1", "2", "3", "4", "5", "6", "7", "8", "9"}

Whitespace == {" ", "\t", "\n"}

UpperCase == <<"A", "B", "C", "D", "E", "F", "G", "H", "I", "J", "K", "L", "M",
               "N", "O", "P", "Q", "R", "S", "T", "U", "V", "W", "X", "Y", "Z">>

LowerCase == <<"a", "b", "c", "d", "e", "f", "g", "h", "i", "j", "k", "l", "m",
               "n", "o", "p", "q", "r", "s", "t", "u", "v", "w", "x", "y", "z">>

LowerChar(c) ==
    IF \E i \in 1..26 : UpperCase[i] = c
    THEN LowerCase[CHOOSE i \in 1..26 : UpperCase[i] = c]
    ELSE c

\* str.lower()
StrLower(s) == [i \in 1..Len(s) |-> LowerChar(s[i])]

\* str.replace(r'\D', '', regex=True): every non-digit character is removed
RemoveNonDigits(s) == SelectSeq(s, LAMBDA c : c \in Digits)

RECURSIVE LStrip(_)
LStrip(s) ==
    IF s # <<>> /\ Head(s) \in Whitespace THEN LStrip(Tail(s)) ELSE s

RECURSIVE RStrip(_)
RStrip(s) ==
    IF s # <<>> /\ s[Len(s)] \in Whitespace
    THEN RStrip(SubSeq(s, 1, Len(s) - 1))
    ELSE s

\* str.strip()
StrStrip(s) == RStrip(LStrip(s))

\* a replace of each pair of whitespace characters by ' ', made once
RECURSIVE CollapseWsPairs(_)
CollapseWsPairs(s) ==
    IF Len(s) < 2 THEN s
    ELSE IF s[1] \in Whitespace /\ s[2] \in Whitespace
         THEN <<" ">> \o CollapseWsPairs(Tail(Tail(s)))
         ELSE <<Head(s)>> \o CollapseWsPairs(Tail(s))

\* str.replace(r'\s+', ' ', regex=True): each maximal whitespace run -> ' '
RECURSIVE CollapseWs(_)
CollapseWs(s) ==
    IF s = <<>> THEN <<>>
    ELSE IF Head(s) \in Whitespace
         THEN <<" ">> \o CollapseWs(LStrip(Tail(s)))
         ELSE <<Head(s)>> \o CollapseWs(Tail(s))

\* str.split(): the maximal runs of non-whitespace characters
RECURSIVE SplitWs(_)
SplitWs(s) ==
    LET t == LStrip(s) IN
    IF t = <<>> THEN <<>>
    ELSE LET n == CHOOSE k \in 1..Len(t) :
                     /\ \A i \in 1..k : t[i] \notin Whitespace
                     /\ (k = Len(t) \/ t[k + 1] \in Whitespace)
         IN <<SubSeq(t, 1, n)>> \o SplitWs(SubSeq(t, n + 1, Len(t)))

\* sep.join(parts)
RECURSIVE JoinStr(_, _)
JoinStr(parts, sep) ==
    IF parts = <<>> THEN <<>>
    ELSE IF Len(parts) = 1 THEN parts[1]
    ELSE parts[1] \o sep \o JoinStr(Tail(parts), sep)

\* x.unique(): the distinct values in order of first appearance
RECURSIVE Unique(_)
Unique(xs) ==
    IF xs = <<>> THEN <<>>
    ELSE LET r == Unique(SubSeq(xs, 1, Len(xs) - 1))
             x == xs[Len(xs)]
         IN IF \E i \in 1..Len(r) : r[i] = x THEN r ELSE Append(r, x)

Range(f) == {f[i] : i \in DOMAIN f}

\* the sequences over S of length 0..n
SeqUpTo(S, n) == UNION {[1..k -> S] : k \in 0..n}

NaN == <<"<NaN>">>

s_nan == <<"n", "a", "n">>

s_Unknown == <<"U", "n", "k", "n", "o", "w", "n">>

s_Other == <<"O", "t", "h", "e", "r">>

s_Empty == <<>>

s_bar == <<" ", "|", " ">>

s_us == <<"_">>

\* Series.astype(str): NaN becomes the text 'nan'
AsTypeStr(c) == IF c = NaN THEN s_nan ELSE c

\* Series.fillna(v)
FillNa(c, v) == IF c = NaN THEN v ELSE c

\* Series.ffill() over a column given as a sequence of cells
RECURSIVE FFill(_)
FFill(col) ==
    IF col = <<>> THEN <<>>
    ELSE LET r == FFill(SubSeq(col, 1, Len(col) - 1))
             c == col[Len(col)]
         IN IF c = NaN /\ r # <<>> THEN Append(r, r[Len(r)]) ELSE Append(r, c)

\* sub in s (Python substring test)
Contains(s, sub) ==
    \E i \in 0..(Len(s) - Len(sub)) : SubSeq(s, i + 1, i + Len(sub)) = sub

----------------------------------------------------------------------------
(* The mapping workbook Ads_BI/mapping.xlsx *)

\* sheet names; "@" stands for one CJK character of the real name
n_Manager == <<"M", "a", "n", "a", "g", "e", "r", "_", "M", "a", "p">>

n_Bridge == <<"@", "@", "m", "a", "p", "p", "i", "n", "g">>

n_Sheet1 == <<"S", "h", "e", "e", "t", "1">>

s_manager == <<"m", "a", "n", "a", "g", "e", "r">>

\* the CJK word for "optimizer" (three characters)
s_optimizer == <<"%", "%", "%">>

a_123 == <<"1", "2", "3", "-", "4", "5", "6", "-", "7", "8", "9", "0">>

a_123plain == <<"1", "2", "3", "4", "5", "6", "7", "8", "9", "0">>

a_22 == <<"2", "2">>

a_zz == <<"z", "z">>

p_Ann == <<"A", "n", "n">>

p_Bob == <<"B", "o", "b">>

c_ShoppingUS == <<"S", "h", "o", "p", "p", "i", "n", "g", " ", "U", "S">>

c_shopping2 == <<" ", "s", "h", "o", "p", "p", "i", "n", "g", " ", "\t", "u", "s">>

c_pm == <<"p", "m">>

u_1 == <<"u", "1">>

u_2 == <<"u", "2">>

l_1 == <<"l", "1">>

l_2 == <<"l", "2">>

k_Toys == <<"T", "o", "y", "s">>

k_Home == <<"H", "o", "m", "e">>

\* rows of a manager sheet: one account written two ways under different
\* managers, a second account with a blank manager cell
MgrRows ==
    { [acct |-> a_123,      mgr |-> p_Ann],
      [acct |-> a_123plain, mgr |-> p_Bob],
      [acct |-> a_22,       mgr |-> NaN] }

\* rows of the bridge sheet: one campaign written two ways, blank value
\* cells, a merged (blank) campaign cell
BridgeRows ==
    { [camp |-> c_ShoppingUS, url |-> u_1, lp |-> l_1, cat |-> k_Toys],
      [camp |-> c_shopping2,  url |-> NaN, lp |-> NaN, cat |-> NaN],
      [camp |-> NaN,          url |-> u_2, lp |-> l_2, cat |-> k_Home] }

MgrCols == {"acct", "mgr"}

BridgeCols == {"camp", "url", "lp", "cat"}

\* a sheet: hdr = "nonstr" when some header cell is not text (a number, a date)
ManagerSheets ==
    {[hdr |-> "str", cols |-> MgrCols, rows |-> r] :
        r \in SeqUpTo(MgrRows, MaxMgrRows)}
    \cup {[hdr |-> "str", cols |-> {"acct"},
           rows |-> <<[acct |-> a_123, mgr |-> p_Ann]>>]}
    \cup {[hdr |-> "nonstr", cols |-> MgrCols, rows |-> r] :
        r \in {<<>>, <<[acct |-> a_123, mgr |-> p_Ann]>>}}

BridgeSheets ==
    {[hdr |-> "str", cols |-> BridgeCols, rows |-> r] :
        r \in SeqUpTo(BridgeRows, MaxBridgeRows)}
    \cup {[hdr |-> "str", cols |-> c,
           rows |-> <<[camp |-> c_ShoppingUS, url |-> u_1, lp |-> l_1,
                       cat |-> k_Toys]>>] :
        c \in {{"url", "lp", "cat"}, {"camp", "url", "lp"}, {"camp", "cat"}}}
    \cup {[hdr |-> "nonstr", cols |-> BridgeCols,
           rows |-> <<[camp |-> c_ShoppingUS, url |-> u_1, lp |-> l_1,
                       cat |-> k_Toys]>>]}

\* the workbooks: unreadable file, both sheets, bridge sheet only,
\* a single sheet with an unrelated name
Workbooks ==
    {[opens |-> FALSE, names |-> <<>>, sheets |-> <<>>]}
    \cup {[opens |-> TRUE, names |-> <<n_Manager, n_Bridge>>,
           sheets |-> (n_Manager :> m) @@ (n_Bridge :> b)] :
            m \in ManagerSheets, b \in BridgeSheets}
    \cup {[opens |-> TRUE, names |-> <<n_Bridge>>, sheets |-> (n_Bridge :> b)] :
            b \in BridgeSheets}
    \cup {[opens |-> TRUE, names |-> <<n_Sheet1>>, sheets |-> (n_Sheet1 :> m)] :
            m \in ManagerSheets}

----------------------------------------------------------------------------
(* Numbers *)

Sgn(n) == IF n > 0 THEN 1 ELSE IF n < 0 THEN -1 ELSE 0

Abs(n) == IF n < 0 THEN -n ELSE n

RECURSIVE GCD(_, _)
GCD(a, b) == IF b = 0 THEN a ELSE GCD(b, a % b)

\* the rational n/d in lowest terms, d > 0 (requires d # 0)
Norm(n, d) ==
    LET g == GCD(Abs(n), Abs(d)) IN <<(Sgn(d) * n) \div g, Abs(d) \div g>>

R(n) == <<n, 1>>

Zero == <<0, 1>>

FNaN == <<0, 0>>

IsFinite(x) == x[2] # 0

\* float64 division: x/0 is +-inf, 0/0 is nan
RDiv(x, y) ==
    IF ~IsFinite(x) \/ ~IsFinite(y) THEN FNaN
    ELSE IF y[1] = 0 THEN <<Sgn(x[1]), 0>>
    ELSE Norm(x[1] * y[2], x[2] * y[1])

RAdd(x, y) ==
    IF x = FNaN \/ y = FNaN THEN FNaN
    ELSE IF ~IsFinite(x) /\ ~IsFinite(y) THEN <<Sgn(x[1] + y[1]), 0>>
    ELSE IF ~IsFinite(x) THEN x
    ELSE IF ~IsFinite(y) THEN y
    ELSE Norm(x[1] * y[2] + y[1] * x[2], x[2] * y[2])

RNeg(x) == <<-x[1], x[2]>>

RSub(x, y) == RAdd(x, RNeg(y))

\* x > y, x < y (false when either side is nan)
RGt(x, y) == x # FNaN /\ y # FNaN /\ x[1] * y[2] > y[1] * x[2]

RLt(x, y) == RGt(y, x)

RECURSIVE RSum(_)
RSum(xs) == IF xs = <<>> THEN Zero ELSE RAdd(Head(xs), RSum(Tail(xs)))

\* a cell of a numeric column as delivered by the source
Num(n) == [t |-> "num", v |-> n]

BadNum == [t |-> "str", v |-> 0]

NullNum == [t |-> "null", v |-> 0]

\* pd.to_numeric(col, errors='coerce').fillna(0)
ToNumeric(c) == IF c.t = "num" THEN R(c.v) ELSE Zero

----------------------------------------------------------------------------
(* The metrics store: table t_google_cost *)

\* queried rows: a positive, a negative and an unparseable spend
RawRows ==
    { [day |-> 1, acct |-> a_123, camp |-> c_ShoppingUS,
       cost |-> Num(100), conv |-> Num(1), val |-> Num(250)],
      [day |-> 2, acct |-> a_22, camp |-> c_shopping2,
       cost |-> Num(-2), conv |-> NullNum, val |-> Num(5)],
      [day |-> 1, acct |-> a_zz, camp |-> c_pm,
       cost |-> BadNum, conv |-> Num(0), val |-> Num(7)] }

\* what the query does: the connection fails, the SQL fails, the date column
\* does not convert, or rows come back
DbResults ==
    {[status |-> st, rows |-> <<>>] : st \in {"conn_fail", "sql_error"}}
    \cup {[status |-> "bad_date", rows |-> <<r>>] : r \in RawRows}
    \cup {[status |-> "ok", rows |-> rs] : rs \in SeqUpTo(RawRows, MaxRawRows)}

----------------------------------------------------------------------------
(* State *)

VARIABLES
    pc,                  \* position in load_data / its outcome
    xls,                 \* the workbook on disk
    sheet_names,         \* local of load_data, Unbound until assigned
    manager_map,         \* DataFrame [cols, rows]
    bridge_map,          \* campaign key -> joined URLs
    landing_page_map,    \* campaign key -> joined landing pages
    category_direct_map, \* campaign key -> joined categories
    db,                  \* outcome of the metrics query
    raw_df,              \* rows after coercion, with ROAS and join_id
    ret,                 \* rows of the DataFrame load_data returns
    target_date,         \* tab6: the selected cut-off date
    goal_csv,            \* tab6: the goal file as read
    final_view,          \* tab6: the goal-tracking table, Total row last
    cache,               \* st.cache_data entry of load_data
    now,                 \* wall clock, seconds
    main_df,             \* main: df, the record set load_data handed back
    sel,                 \* main: the sidebar selection
    view,                \* main: what the tabs computed
    arg,                 \* argument of a helper under study
    res                  \* its result

dataVars == <<xls, sheet_names, manager_map, bridge_map, landing_page_map,
              category_direct_map, db, raw_df, ret>>

loadVars == <<pc, dataVars>>

tab6Vars == <<target_date, goal_csv, final_view>>

pageVars == <<cache, now, main_df>>

viewVars == <<sel, view>>

fnVars == <<arg, res>>

uiVars == <<tab6Vars, pageVars, viewVars, fnVars>>

Unbound == << <<"<unbound>">> >>

EmptyDF == [cols |-> {}, rows |-> <<>>]

\* DataFrame.empty
IsEmptyDF(df) == df.cols = {} \/ df.rows = <<>>

EmptyMap == <<>>

\* dict.get(key, default)
MapGet(m, k, default) == IF k \in DOMAIN m THEN m[k] ELSE default

----------------------------------------------------------------------------
(* load_data, part 1: the manager map (lines 68-100) *)

\* a join key that only strips the surrounding whitespace
JoinIdStrip(c) == StrStrip(AsTypeStr(c))

\* join_id: astype(str), then every non-digit removed
JoinId(c) == RemoveNonDigits(AsTypeStr(c))

\* index of the sheet read as manager map: the first whose name holds
\* "manager" (case-insensitive) or the CJK word, else the first sheet; 0 if none
TargetSheet(names) ==
    LET hit(i) == \/ Contains(StrLower(names[i]), s_manager)
                  \/ Contains(names[i], s_optimizer)
    IN IF \E i \in 1..Len(names) : hit(i)
       THEN CHOOSE i \in 1..Len(names) : hit(i) /\ \A j \in 1..(i - 1) : ~hit(j)
       ELSE IF names # <<>> THEN 1 ELSE 0

\* drop_duplicates(subset=['join_id']) with keep='last'
RECURSIVE DropDuplicatesKeepLast(_)
DropDuplicatesKeepLast(rows) ==
    IF rows = <<>> THEN <<>>
    ELSE LET x == Head(rows)
             r == DropDuplicatesKeepLast(Tail(rows))
         IN IF \E i \in 1..Len(r) : r[i].join_id = x.join_id
            THEN r ELSE <<x>> \o r

\* no de-duplication at all
DropDuplicatesNone(rows) == rows

\* drop_duplicates(subset=['join_id']): pandas default keep='first'
RECURSIVE DropDuplicates(_)
DropDuplicates(rows) ==
    IF rows = <<>> THEN <<>>
    ELSE LET r == DropDuplicates(SubSeq(rows, 1, Len(rows) - 1))
             x == rows[Len(rows)]
         IN IF \E i \in 1..Len(r) : r[i].join_id = x.join_id
            THEN r ELSE Append(r, x)

\* the manager_map DataFrame left by the first try block
ReadManagerMap(wb) ==
    IF ~wb.opens THEN EmptyDF                       \* ExcelFile raises
    ELSE LET t == TargetSheet(wb.names) IN
         IF t = 0 THEN EmptyDF
         ELSE LET sh == wb.sheets[wb.names[t]] IN
              IF sh.hdr = "nonstr"
              THEN \* c.strip() raises after manager_map was assigned
                   [cols |-> sh.cols, rows |-> sh.rows]
              ELSE IF {"acct", "mgr"} \subseteq sh.cols
              THEN [cols |-> sh.cols \cup {"join_id"},
                    rows |-> DropDuplicates(
                        [i \in 1..Len(sh.rows) |->
                            [acct |-> sh.rows[i].acct, mgr |-> sh.rows[i].mgr,
                             join_id |-> JoinId(sh.rows[i].acct)]])]
              ELSE EmptyDF

LoadManagerMap ==
    /\ pc = "load_manager"
    /\ sheet_names' = IF xls.opens THEN xls.names ELSE Unbound
    /\ manager_map' = ReadManagerMap(xls)
    /\ pc' = "load_bridge"
    /\ UNCHANGED <<xls, bridge_map, landing_page_map, category_direct_map, db,
                   raw_df, ret, uiVars>>

----------------------------------------------------------------------------
(* load_data, part 2: the bridge maps (lines 103-165) *)

\* the campaign key of a sheet cell: astype(str), whitespace runs -> ' ',
\* strip, lower
NormCampaignSheet(c) == StrLower(StrStrip(CollapseWs(AsTypeStr(c))))

\* the values of the rows whose key is k, in sheet order
RECURSIVE ValuesOf(_, _, _)
ValuesOf(keys, vals, k) ==
    IF keys = <<>> THEN <<>>
    ELSE (IF Head(keys) = k THEN <<Head(vals)>> ELSE <<>>)
         \o ValuesOf(Tail(keys), Tail(vals), k)

NonEmpty(v) == v # <<>>

\* the key column after ffill and normalisation
BridgeKeys(rows) ==
    LET filled == FFill([i \in 1..Len(rows) |-> rows[i].camp])
    IN [i \in 1..Len(rows) |-> NormCampaignSheet(filled[i])]

\* campaign -> URL: astype(str), ' | '.join(x.unique())
UrlMap(rows) ==
    LET keys == BridgeKeys(rows)
        vals == [i \in 1..Len(rows) |-> AsTypeStr(rows[i].url)]
    IN [k \in Range(keys) |-> JoinStr(Unique(ValuesOf(keys, vals, k)), s_bar)]

\* campaign -> landing page: fillna(""), join of the non-empty unique values
LandingPageMap(rows) ==
    LET keys == BridgeKeys(rows)
        vals == [i \in 1..Len(rows) |-> AsTypeStr(FillNa(rows[i].lp, s_Empty))]
    IN [k \in Range(keys) |->
          JoinStr(SelectSeq(Unique(ValuesOf(keys, vals, k)), NonEmpty), s_bar)]

\* campaign -> category: fillna("Unknown"), ' | '.join(x.unique())
CategoryMap(rows) ==
    LET keys == BridgeKeys(rows)
        vals == [i \in 1..Len(rows) |-> AsTypeStr(FillNa(rows[i].cat, s_Unknown))]
    IN [k \in Range(keys) |-> JoinStr(Unique(ValuesOf(keys, vals, k)), s_bar)]

\* the bridge sheet is read and its three maps can be built
BridgeReadable ==
    /\ sheet_names # Unbound                 \* else NameError, caught
    /\ n_Bridge \in Range(sheet_names)
    /\ xls.sheets[n_Bridge].hdr = "str"      \* else c.strip() raises, caught

LoadBridgeMap ==
    /\ pc = "load_bridge"
    /\ IF BridgeReadable
       THEN LET sh == xls.sheets[n_Bridge] IN
            /\ bridge_map' = IF {"camp", "url"} \subseteq sh.cols
                             THEN UrlMap(sh.rows) ELSE EmptyMap
            /\ landing_page_map' = IF {"camp", "lp"} \subseteq sh.cols
                                   THEN LandingPageMap(sh.rows) ELSE EmptyMap
            /\ category_direct_map' = IF {"camp", "cat"} \subseteq sh.cols
                                      THEN CategoryMap(sh.rows) ELSE EmptyMap
       ELSE /\ bridge_map' = EmptyMap
            /\ landing_page_map' = EmptyMap
            /\ category_direct_map' = EmptyMap
    /\ pc' = "query"
    /\ UNCHANGED <<xls, sheet_names, manager_map, db, raw_df, ret, uiVars>>

----------------------------------------------------------------------------
(* load_data, part 3: the metrics query (lines 171-207) *)

\* ROAS computed without the guard on the spend
RoasUnguarded(cost, val) == RDiv(val, cost)

\* row ROAS: val / cost if cost > 0 else 0
Roas(cost, val) == IF RGt(cost, Zero) THEN RDiv(val, cost) ELSE Zero

\* numeric coercion, ROAS and join_id of the queried rows; src is the
\* position of the row in the query result
CleanRaw(rows) ==
    [i \in 1..Len(rows) |->
        LET cost == ToNumeric(rows[i].cost)
            val == ToNumeric(rows[i].val)
        IN [src |-> i, day |-> rows[i].day, acct |-> rows[i].acct,
            camp |-> rows[i].camp, cost |-> cost,
            conv |-> ToNumeric(rows[i].conv), val |-> val,
            ROAS |-> Roas(cost, val), join_id |-> JoinId(rows[i].acct)]]

QueryMetrics ==
    /\ pc = "query"
    /\ \E d \in DbResults :
        /\ db' = d
        /\ CASE d.status = "conn_fail" ->
                  \* get_db_connection: st.error, st.stop()
                  /\ pc' = "stopped"
                  /\ UNCHANGED <<raw_df, ret>>
             [] d.status \in {"sql_error", "bad_date"} ->
                  \* except Exception: return pd.DataFrame()
                  /\ pc' = "returned"
                  /\ ret' = <<>>
                  /\ UNCHANGED raw_df
             [] d.status = "ok" /\ d.rows = <<>> ->
                  /\ pc' = "returned"
                  /\ ret' = <<>>
                  /\ UNCHANGED raw_df
             [] d.status = "ok" /\ d.rows # <<>> ->
                  /\ pc' = "enrich"
                  /\ raw_df' = CleanRaw(d.rows)
                  /\ UNCHANGED ret
    /\ UNCHANGED <<xls, sheet_names, manager_map, bridge_map, landing_page_map,
                   category_direct_map, uiVars>>

----------------------------------------------------------------------------
(* load_data, part 4: enrichment (lines 209-260) *)

\* pd.merge(raw_df, map_dedup, on='join_id', how='left'): every left row once
\* per matching right row, or once with a null manager
RECURSIVE LeftMerge(_, _)
LeftMerge(left, right) ==
    IF left = <<>> THEN <<>>
    ELSE LET r == Head(left)
             m == SelectSeq(right, LAMBDA x : x.join_id = r.join_id)
         IN (IF m = <<>> THEN <<[mgr |-> NaN] @@ r>>
             ELSE [i \in 1..Len(m) |-> [mgr |-> m[i].mgr] @@ r])
            \o LeftMerge(Tail(left), right)

\* the manager column left as merged, nulls included
FillManagerNone(c) == c

\* merged_df[mgr].fillna("Unknown")
FillManager(c) == FillNa(c, s_Unknown)

\* the campaign key of a metric row: ' '.join(str(name).split()).lower()
NormCampaignRow(c) == StrLower(JoinStr(SplitWs(AsTypeStr(c)), <<" ">>))

get_url_from_campaign(row) ==
    MapGet(bridge_map, NormCampaignRow(row.camp), s_Empty)

get_lp_from_campaign(row) ==
    MapGet(landing_page_map, NormCampaignRow(row.camp), s_Empty)

\* a lookup miss resolved to "Other"
get_cat_from_campaign_other(row) ==
    MapGet(category_direct_map, NormCampaignRow(row.camp), s_Other)

get_cat_from_campaign(row) ==
    MapGet(category_direct_map, NormCampaignRow(row.camp), s_Unknown)

\* account + "_" + category + "_" + campaign
GroupId(acct, cat, camp) == acct \o s_us \o cat \o s_us \o camp

\* the manager merge needs both columns of manager_map (else KeyError)
ManagerMergeRaises ==
    ~IsEmptyDF(manager_map) /\ ~({"join_id", "mgr"} \subseteq manager_map.cols)

WithManager ==
    IF ~IsEmptyDF(manager_map)
    THEN LET map_dedup == DropDuplicates(
                 [i \in 1..Len(manager_map.rows) |->
                     [join_id |-> manager_map.rows[i].join_id,
                      mgr |-> manager_map.rows[i].mgr]])
             merged == LeftMerge(raw_df, map_dedup)
         IN [i \in 1..Len(merged) |->
                [mgr |-> FillManager(merged[i].mgr)] @@ merged[i]]
    ELSE [i \in 1..Len(raw_df) |-> [mgr |-> s_Unknown] @@ raw_df[i]]

Enriched ==
    LET merged == WithManager IN
    [i \in 1..Len(merged) |->
        LET cat == get_cat_from_campaign(merged[i])
        IN [url |-> get_url_from_campaign(merged[i]),
            lp |-> get_lp_from_campaign(merged[i]),
            cat |-> cat,
            grp |-> <<"A", "l", "l">>,
            clean_url |-> s_Empty,
            group_id |-> GroupId(merged[i].acct, cat, merged[i].camp)]
           @@ merged[i]]

Enrich ==
    /\ pc = "enrich"
    /\ IF ManagerMergeRaises
       THEN pc' = "raised" /\ UNCHANGED ret
       ELSE pc' = "returned" /\ ret' = Enriched
    /\ UNCHANGED <<xls, sheet_names, manager_map, bridge_map, landing_page_map,
                   category_direct_map, db, raw_df, uiVars>>

----------------------------------------------------------------------------
(* The pipeline as a state machine *)

NoDb == [status |-> "none", rows |-> <<>>]

NoDate == [day |-> 0, dim |-> 0]

NoGoalFile == [exists |-> FALSE, rows |-> <<>>]

\* nothing cached yet
NoCache == [valid |-> FALSE, at |-> 0, rows |-> <<>>]

\* main has not run: no page state
NoPage == cache = NoCache /\ now = 0 /\ main_df = <<>>

\* no sidebar selection made, no tab computed
NoView == sel = <<>> /\ view = <<>>

\* no helper under study
NoCall == arg = <<>> /\ res = <<>>

Init ==
    /\ NoPage /\ NoView /\ NoCall
    /\ target_date = NoDate
    /\ goal_csv = NoGoalFile
    /\ final_view = <<>>
    /\ pc = "load_manager"
    /\ xls \in Workbooks
    /\ sheet_names = Unbound
    /\ manager_map = EmptyDF
    /\ bridge_map = EmptyMap
    /\ landing_page_map = EmptyMap
    /\ category_direct_map = EmptyMap
    /\ db = NoDb
    /\ raw_df = <<>>
    /\ ret = <<>>

Next ==
    \/ LoadManagerMap
    \/ LoadBridgeMap
    \/ QueryMetrics
    \/ Enrich

vars == <<loadVars, uiVars>>

Spec == Init /\ [][Next]_vars

----------------------------------------------------------------------------
(* Properties of load_data *)

\* the value of a numeric cell after coercion, as an integer
Coerced(c) == IF c.t = "num" THEN c.v ELSE 0

\* C1: every returned row has ROAS = conversion value / spend when the
\* coerced spend is positive and ROAS = 0 when it is zero or negative
\* (an unparseable or null cell counts as 0)
C1_RowRoas ==
    pc = "returned" =>
        \A i \in 1..Len(ret) :
            LET spend == Coerced(db.rows[ret[i].src].cost)
                value == Coerced(db.rows[ret[i].src].val)
                roas == ret[i].ROAS
            IN /\ ret[i].cost = <<spend, 1>> /\ ret[i].val = <<value, 1>>
               /\ spend > 0 => roas[2] > 0 /\ roas[1] * spend = value * roas[2]
               /\ spend =< 0 => roas = <<0, 1>>

\* a returned set with a row of ROAS 250/100 and a row of unparseable spend
C1_Witness ==
    /\ pc = "returned"
    /\ \E i \in 1..Len(ret) : ret[i].ROAS = <<5, 2>>
    /\ \E i \in 1..Len(ret) :
          db.rows[ret[i].src].cost = BadNum /\ ret[i].ROAS = <<0, 1>>

\* the sheet load_data reads as manager map, when the workbook opens
ManagerSheet == xls.sheets[xls.names[TargetSheet(xls.names)]]

\* the manager sheet was read and has both required columns
ManagerSheetUsable ==
    xls.opens /\ ManagerSheet.hdr = "str" /\ MgrCols \subseteq ManagerSheet.cols

\* the manager-sheet rows whose account has the digits of acct, in sheet order
SheetRowsFor(acct) ==
    SelectSeq(ManagerSheet.rows,
              LAMBDA m : RemoveNonDigits(AsTypeStr(m.acct))
                            = RemoveNonDigits(acct))

\* C2: every returned record has a manager and a category that are neither
\* null nor empty; a manager that no sheet row resolves is "Unknown" and a
\* category that no bridge key resolves is "Unknown" or "Other"
C2_NoNullManagerCategory ==
    pc = "returned" =>
        \A i \in 1..Len(ret) :
            /\ ret[i].mgr \notin {NaN, <<>>}
            /\ ret[i].cat \notin {NaN, <<>>}
            /\ (~ManagerSheetUsable \/ SheetRowsFor(ret[i].acct) = <<>>)
                  => ret[i].mgr = s_Unknown
            /\ NormCampaignSheet(ret[i].camp) \notin DOMAIN category_direct_map
                  => ret[i].cat \in {s_Unknown, s_Other}

\* a record matched by a manager row and a bridge row whose cells are blank
C2_Witness ==
    /\ pc = "returned"
    /\ ManagerSheetUsable
    /\ BridgeReadable
    /\ \E i \in 1..Len(ret) :
          /\ SheetRowsFor(ret[i].acct) # <<>>
          /\ SheetRowsFor(ret[i].acct)[1].mgr = NaN
          /\ ret[i].mgr = s_Unknown
          /\ \E j \in 1..Len(xls.sheets[n_Bridge].rows) :
                /\ xls.sheets[n_Bridge].rows[j].camp = ret[i].camp
                /\ xls.sheets[n_Bridge].rows[j].cat = NaN
          /\ NormCampaignSheet(ret[i].camp) \in DOMAIN category_direct_map
          /\ ret[i].cat = s_Unknown

\* C3: enrichment returns exactly one record per queried row, in order,
\* whatever the lookup tables hold
C3_OneRecordPerRow ==
    (pc = "returned" /\ db.status = "ok") =>
        /\ Len(ret) = Len(db.rows)
        /\ \A i \in 1..Len(ret) :
              /\ ret[i].src = i
              /\ ret[i].acct = db.rows[i].acct
              /\ ret[i].camp = db.rows[i].camp

\* two rows returned: one whose account key is listed twice in the manager
\* sheet, one that misses every lookup
C3_Witness ==
    /\ pc = "returned"
    /\ ManagerSheetUsable
    /\ Len(ret) = 2
    /\ Len(SheetRowsFor(ret[1].acct)) = 2
    /\ ret[2].mgr = s_Unknown /\ SheetRowsFor(ret[2].acct) = <<>>
    /\ NormCampaignSheet(ret[2].camp) \notin DOMAIN category_direct_map
    /\ NormCampaignSheet(ret[2].camp) \notin DOMAIN bridge_map

s_Shopping == <<"S", "h", "o", "p", "p", "i", "n", "g">>

s_shopping == <<"s", "h", "o", "p", "p", "i", "n", "g">>

\* the channel keywords of the keyword inference
ChannelKeywords ==
    { s_shopping, <<"s", "e", "a", "r", "c", "h">>, <<"p", "m", "a", "x">>,
      <<"b", "r", "a", "n", "d">>, <<"d", "i", "s", "p", "l", "a", "y">>,
      <<"v", "i", "d", "e", "o">> }

\* C4 as stated: category is the direct bridge entry, else (the URL map being
\* absent) the label inferred from a channel keyword in the lower-cased
\* campaign name, else "Other"; "Shopping US" without lookups is "Shopping"
C4_KeywordFallback ==
    pc = "returned" =>
        \A i \in 1..Len(ret) :
            LET k == NormCampaignSheet(ret[i].camp)
                low == StrLower(ret[i].camp)
            IN IF k \in DOMAIN category_direct_map
               THEN ret[i].cat = category_direct_map[k]
               ELSE /\ Contains(low, s_shopping) => ret[i].cat = s_Shopping
                    /\ (\A w \in ChannelKeywords : ~Contains(low, w))
                          => ret[i].cat = s_Other

\* C4 amended: category is the direct bridge entry of the normalized campaign
\* name when the bridge sheet lists it, and "Unknown" otherwise; no keyword
\* inference and no URL lookup takes place
C4_DirectOrUnknown ==
    pc = "returned" =>
        \A i \in 1..Len(ret) :
            LET k == NormCampaignSheet(ret[i].camp)
            IN ret[i].cat = IF k \in DOMAIN category_direct_map
                            THEN category_direct_map[k]
                            ELSE s_Unknown

\* campaign "Shopping US" with empty lookup tables is returned as "Unknown"
C4_Witness ==
    /\ pc = "returned"
    /\ category_direct_map = EmptyMap
    /\ bridge_map = EmptyMap
    /\ IsEmptyDF(manager_map)
    /\ \E i \in 1..Len(ret) :
          ret[i].camp = c_ShoppingUS /\ ret[i].cat = s_Unknown

\* C8 as stated: a record whose account key is listed several times in the
\* manager sheet carries the manager of the last listed row
C8_LastRowWins ==
    (pc = "returned" /\ ManagerSheetUsable) =>
        \A i \in 1..Len(ret) :
            LET rows == SheetRowsFor(ret[i].acct)
            IN Len(rows) > 1 =>
                  ret[i].mgr = FillNa(rows[Len(rows)].mgr, s_Unknown)

\* C8 amended: a record whose account key is listed several times in the
\* manager sheet carries the manager of the first listed row ("Unknown" when
\* that row's manager cell is blank)
C8_FirstRowWins ==
    (pc = "returned" /\ ManagerSheetUsable) =>
        \A i \in 1..Len(ret) :
            LET rows == SheetRowsFor(ret[i].acct)
            IN Len(rows) > 1 =>
                  ret[i].mgr = FillNa(rows[1].mgr, s_Unknown)

\* an account listed twice with different managers, returned with the first
C8_Witness ==
    /\ pc = "returned"
    /\ ManagerSheetUsable
    /\ \E i \in 1..Len(ret) :
          LET rows == SheetRowsFor(ret[i].acct)
          IN /\ Len(rows) = 2
             /\ rows[1].mgr = p_Ann /\ rows[2].mgr = p_Bob
             /\ ret[i].mgr = p_Ann

\* the distinct non-blank cells of column col in the bridge rows of key k,
\* in sheet order
NonBlankValues(rows, col, k) ==
    SelectSeq(Unique(ValuesOf(BridgeKeys(rows),
                              [i \in 1..Len(rows) |-> rows[i][col]], k)),
              LAMBDA v : v # NaN)

\* C9: for every campaign key of the bridge sheet, the URL, landing-page and
\* category map values are the distinct non-blank cells of the key's rows,
\* each once, joined with " | "; a blank cell contributes nothing
C9_JoinedNonBlankValues ==
    (pc \notin {"load_manager", "load_bridge"} /\ BridgeReadable
        /\ xls.sheets[n_Bridge].cols = BridgeCols) =>
        LET rows == xls.sheets[n_Bridge].rows
        IN \A k \in Range(BridgeKeys(rows)) :
              /\ k \in DOMAIN bridge_map
              /\ bridge_map[k] = JoinStr(NonBlankValues(rows, "url", k), s_bar)
              /\ k \in DOMAIN landing_page_map
              /\ landing_page_map[k]
                     = JoinStr(NonBlankValues(rows, "lp", k), s_bar)
              /\ k \in DOMAIN category_direct_map
              /\ category_direct_map[k]
                     = JoinStr(NonBlankValues(rows, "cat", k), s_bar)

\* the manager table is unavailable: unreadable workbook, unusable sheet
ManagerUnavailable == ~ManagerSheetUsable

\* C10: a failure in loading reference data never escapes load_data: the
\* affected table is empty, the query runs, and the returned records carry
\* manager "Unknown" (manager table unavailable), category "Unknown" and
\* empty URL and landing page (bridge table unavailable)
C10_ReferenceFailureRecovered ==
    /\ pc # "raised"
    /\ (pc = "returned" /\ ret # <<>> /\ ManagerUnavailable)
          => IsEmptyDF(manager_map)
    /\ (pc = "returned" /\ ret # <<>> /\ ~BridgeReadable)
          => /\ bridge_map = EmptyMap
             /\ landing_page_map = EmptyMap
             /\ category_direct_map = EmptyMap
    /\ pc = "returned" =>
          \A i \in 1..Len(ret) :
              /\ ManagerUnavailable => ret[i].mgr = s_Unknown
              /\ ~BridgeReadable =>
                    /\ ret[i].cat = s_Unknown
                    /\ ret[i].url = s_Empty
                    /\ ret[i].lp = s_Empty

----------------------------------------------------------------------------
(* main, tab6: goal tracking (lines 513-722) *)

a_123padded == <<" ", "1", "2", "3", "-", "4", "5", "6", "-", "7", "8", "9", "0">>

s_Total == <<"T", "o", "t", "a", "l">>

\* rows of the goal file: targets met and missed, no plan at all, an
\* unparseable ROI with a negative spend target, a blank account cell, an
\* account id written without its separators
GoalRows ==
    { [mgr |-> p_Ann, acct |-> a_123, roi |-> Num(2),
       gmv |-> Num(1000), spend |-> Num(100)],
      [mgr |-> p_Bob, acct |-> a_22, roi |-> Num(0),
       gmv |-> Num(0), spend |-> Num(0)],
      [mgr |-> p_Ann, acct |-> a_123padded, roi |-> BadNum,
       gmv |-> Num(250), spend |-> Num(-50)],
      [mgr |-> p_Bob, acct |-> a_zz, roi |-> Num(2),
       gmv |-> Num(500), spend |-> Num(200)],
      [mgr |-> p_Ann, acct |-> NaN, roi |-> Num(2),
       gmv |-> Num(10), spend |-> Num(10)],
      [mgr |-> p_Bob, acct |-> a_123plain, roi |-> Num(2),
       gmv |-> Num(500), spend |-> Num(200)] }

GoalFiles ==
    {NoGoalFile}
    \cup {[exists |-> TRUE, rows |-> g] : g \in SeqUpTo(GoalRows, MaxGoalRows)}

\* the selectable cut-off dates: day of the month and days in that month
TargetDates ==
    { [day |-> 1, dim |-> 28], [day |-> 15, dim |-> 30],
      [day |-> 28, dim |-> 31] }

\* numeric coercion of the targets, blank accounts dropped, join key stripped
CleanGoal(rows) ==
    LET kept == SelectSeq(rows, LAMBDA g : g.acct # NaN)
    IN [i \in 1..Len(kept) |->
           [mgr |-> kept[i].mgr, acct |-> kept[i].acct,
            roi |-> ToNumeric(kept[i].roi),
            target_gmv |-> ToNumeric(kept[i].gmv),
            target_spend |-> ToNumeric(kept[i].spend),
            acct_join |-> StrStrip(AsTypeStr(kept[i].acct))]]

\* the rows of df from the first of the month to the cut-off date
MonthRows(df, date) == SelectSeq(df, LAMBDA r : r.day >= 1 /\ r.day =< date.day)

\* groupby(account).agg(sum), one row per account in order of appearance
MonthAgg(rows) ==
    LET accts == Unique([i \in 1..Len(rows) |-> rows[i].acct])
        of(a) == SelectSeq(rows, LAMBDA r : r.acct = a)
    IN [i \in 1..Len(accts) |->
           [acct_join |-> StrStrip(accts[i]),
            spend |-> RSum([j \in 1..Len(of(accts[i])) |-> of(accts[i])[j].cost]),
            gmv |-> RSum([j \in 1..Len(of(accts[i])) |-> of(accts[i])[j].val])]]

\* pd.merge(goal_df, month_agg, on=acct_join, how='left'), actuals filled 0
RECURSIVE MergeActuals(_, _)
MergeActuals(goals, agg) ==
    IF goals = <<>> THEN <<>>
    ELSE LET g == Head(goals)
             m == SelectSeq(agg, LAMBDA x : x.acct_join = g.acct_join)
         IN (IF m = <<>> THEN <<[spend |-> Zero, gmv |-> Zero] @@ g>>
             ELSE [i \in 1..Len(m) |->
                      [spend |-> m[i].spend, gmv |-> m[i].gmv] @@ g])
            \o MergeActuals(Tail(goals), agg)

\* a progress ratio computed whenever the target is not exactly 0
ProgressNonZero(actual, target) ==
    IF target # Zero THEN RDiv(actual, target) ELSE Zero

\* actual / target if target > 0 else 0
Progress(actual, target) ==
    IF RGt(target, Zero) THEN RDiv(actual, target) ELSE Zero

\* the deviation computed without looking at the sign of the target ROI
DeviationUnguarded(gmv, roi, spend) == RSub(RDiv(gmv, roi), spend)

\* (gmv / roi) - spend if roi > 0 else -spend
Deviation(gmv, roi, spend) ==
    IF RGt(roi, Zero) THEN RSub(RDiv(gmv, roi), spend) ELSE RNeg(spend)

Tenth == <<1, 10>>

MinusFifth == <<-1, 5>>

\* the schedule test made before the overspending test
get_status_schedule_first(row) ==
    IF row.target_spend = Zero THEN "no_planned_spend"
    ELSE IF RLt(row.gmv_gap, MinusFifth) THEN "behind_schedule"
    ELSE IF RGt(row.spend_gmv_diff, Tenth) THEN "overspending"
    ELSE "normal"

get_status(row) ==
    IF row.target_spend = Zero THEN "no_planned_spend"
    ELSE IF RGt(row.spend_gmv_diff, Tenth) THEN "overspending"
    ELSE IF RLt(row.gmv_gap, MinusFifth) THEN "behind_schedule"
    ELSE "normal"

\* the derived columns of one merged goal row
Derived(m, tp) ==
    LET gp == Progress(m.gmv, m.target_gmv)
        sp == Progress(m.spend, m.target_spend)
        d == [mgr |-> m.mgr, acct |-> m.acct, roi |-> m.roi,
              time_progress |-> tp,
              target_gmv |-> m.target_gmv, gmv |-> m.gmv,
              gmv_progress |-> gp, gmv_gap |-> RSub(gp, tp),
              target_spend |-> m.target_spend, spend |-> m.spend,
              spend_progress |-> sp,
              deviation |-> Deviation(m.gmv, m.roi, m.spend),
              spend_gmv_diff |-> RSub(sp, gp)]
    IN [status |-> get_status(d)] @@ d

NumericCols ==
    {"roi", "time_progress", "target_gmv", "gmv", "gmv_progress", "gmv_gap",
     "target_spend", "spend", "spend_progress", "deviation", "spend_gmv_diff"}

\* final_view.sum(numeric_only=True) with the three text cells set
SumRow(rows) ==
    [c \in NumericCols |-> RSum([i \in 1..Len(rows) |-> rows[i][c]])]
    @@ [mgr |-> s_Total, acct |-> s_Empty, status |-> ""]

\* the Total row left as the column sums
TotalRowSummed(rows, tp) == SumRow(rows)

\* the Total row: sums, with the ratio columns recomputed from the sums
TotalRow(rows, tp) ==
    LET sum_row == SumRow(rows)
        gp == Progress(sum_row.gmv, sum_row.target_gmv)
        sp == Progress(sum_row.spend, sum_row.target_spend)
    IN [sum_row EXCEPT
           !.time_progress = tp,
           !.gmv_progress = gp,
           !.gmv_gap = RSub(gp, tp),
           !.spend_progress = sp,
           !.spend_gmv_diff = RSub(sp, gp),
           !.roi = IF RGt(sum_row.spend, Zero)
                   THEN Progress(sum_row.target_gmv, sum_row.target_spend)
                   ELSE Zero]

GoalTable(df, goal_rows, date) ==
    LET tp == Norm(date.day, date.dim)
        merged == MergeActuals(CleanGoal(goal_rows), MonthAgg(MonthRows(df, date)))
        rows == [i \in 1..Len(merged) |-> Derived(merged[i], tp)]
    IN Append(rows, TotalRow(rows, tp))

\* one run of tab6: the date is picked, the goal file read, the table built
GoalTracking ==
    /\ pc = "tab6"
    /\ \E d \in TargetDates, f \in GoalFiles :
        /\ target_date' = d
        /\ goal_csv' = f
        /\ IF f.exists
           THEN pc' = "tab6_done" /\ final_view' = GoalTable(ret, f.rows, d)
           ELSE pc' = "tab6_nofile" /\ UNCHANGED final_view
    /\ UNCHANGED <<dataVars, pageVars, viewVars, fnVars>>

\* main reaches tab6 with a non-empty load_data result; here the result of
\* a load without workbook
InitGoal ==
    /\ NoPage /\ NoView /\ NoCall
    /\ pc = "tab6"
    /\ xls = [opens |-> FALSE, names |-> <<>>, sheets |-> <<>>]
    /\ sheet_names = Unbound
    /\ manager_map = EmptyDF
    /\ bridge_map = EmptyMap
    /\ landing_page_map = EmptyMap
    /\ category_direct_map = EmptyMap
    /\ db \in {[status |-> "ok", rows |-> rs] :
                  rs \in SeqUpTo(RawRows, MaxRawRows) \ {<<>>}}
    /\ raw_df = CleanRaw(db.rows)
    /\ ret = Enriched
    /\ target_date = NoDate
    /\ goal_csv = NoGoalFile
    /\ final_view = <<>>

NextGoal == GoalTracking

SpecGoal == InitGoal /\ [][NextGoal]_vars

----------------------------------------------------------------------------
(* Properties of the goal-tracking table *)

\* the per-account rows and the Total row of a built table
AccountRows == SubSeq(final_view, 1, Len(final_view) - 1)

Total == final_view[Len(final_view)]

\* C5: every account row has exactly one status, by priority: target spend
\* 0 -> no planned spend; else spend progress - GMV progress > 0.10 ->
\* overspending; else GMV progress - time progress < -0.20 -> behind
\* schedule; else normal
C5_StatusPriority ==
    pc = "tab6_done" =>
        \A i \in 1..Len(AccountRows) :
            LET r == AccountRows[i]
                over == RGt(RSub(r.spend_progress, r.gmv_progress), <<1, 10>>)
                behind == RLt(RSub(r.gmv_progress, r.time_progress), <<-1, 5>>)
            IN /\ (r.target_spend = <<0, 1>>) => r.status = "no_planned_spend"
               /\ (~(r.target_spend = <<0, 1>>) /\ over) => r.status = "overspending"
               /\ (~(r.target_spend = <<0, 1>>) /\ ~over /\ behind)
                     => r.status = "behind_schedule"
               /\ (~(r.target_spend = <<0, 1>>) /\ ~over /\ ~behind)
                     => r.status = "normal"

\* a row that is overspending and behind schedule, reported as overspending
C5_Witness ==
    /\ pc = "tab6_done"
    /\ \E i \in 1..Len(AccountRows) :
          LET r == AccountRows[i]
          IN /\ r.target_spend # <<0, 1>>
             /\ RGt(RSub(r.spend_progress, r.gmv_progress), <<1, 10>>)
             /\ RLt(RSub(r.gmv_progress, r.time_progress), <<-1, 5>>)
             /\ r.status = "overspending"

RatioCols ==
    {"gmv_progress", "spend_progress", "gmv_gap", "spend_gmv_diff", "roi",
     "time_progress", "deviation"}

\* C6: in every row, Total included, GMV progress is 0 when the GMV target
\* is 0 or negative and spend progress is 0 when the spend target is 0 or
\* negative; no ratio of any row is NaN or infinite
C6_ZeroTargetZeroProgress ==
    pc = "tab6_done" =>
        \A i \in 1..Len(final_view) :
            LET r == final_view[i]
            IN /\ r.target_gmv[1] =< 0 => r.gmv_progress = <<0, 1>>
               /\ r.target_spend[1] =< 0 => r.spend_progress = <<0, 1>>
               /\ \A c \in RatioCols : r[c][2] > 0

\* an account with GMV but a zero GMV target, and a Total row with spend
\* but a negative total spend target
C6_Witness ==
    /\ pc = "tab6_done"
    /\ \E i \in 1..Len(AccountRows) :
          /\ AccountRows[i].target_gmv = <<0, 1>>
          /\ AccountRows[i].gmv[1] > 0
          /\ AccountRows[i].gmv_progress = <<0, 1>>
    /\ Total.target_spend[1] < 0
    /\ Total.spend[1] > 0
    /\ Total.spend_progress = <<0, 1>>

\* the rows of the month whose account is the account of goal row r
ActualsOf(r) ==
    SelectSeq(MonthRows(ret, target_date),
              LAMBDA x : StrStrip(x.acct) = StrStrip(r.acct))

\* C18: for every account row, cumulative spend and GMV are the sums over
\* the account's rows of the month (0 and 0 when it has none); the deviation
\* is (GMV / target ROI) - spend when the target ROI is positive and -spend
\* when it is zero or negative; so an account without actuals has deviation 0
C18_Deviation ==
    pc = "tab6_done" =>
        \A i \in 1..Len(AccountRows) :
            LET r == AccountRows[i]
                a == ActualsOf(r)
                d == r.deviation
            IN /\ r.spend = RSum([j \in 1..Len(a) |-> a[j].cost])
               /\ r.gmv = RSum([j \in 1..Len(a) |-> a[j].val])
               /\ d[2] > 0
               /\ r.roi[1] > 0 =>
                    (d[1] * r.spend[2] + r.spend[1] * d[2]) * r.roi[1] * r.gmv[2]
                        = r.gmv[1] * r.roi[2] * d[2] * r.spend[2]
               /\ r.roi[1] =< 0 => d[1] * r.spend[2] = (-r.spend[1]) * d[2]
               /\ a = <<>> =>
                    r.spend = <<0, 1>> /\ r.gmv = <<0, 1>> /\ d = <<0, 1>>

\* an account with target ROI 2, GMV 250 and spend 100 has deviation 25;
\* next to it an account with a target and no row in the month has 0
C18_Witness ==
    /\ pc = "tab6_done"
    /\ \E i \in 1..Len(AccountRows) :
          /\ AccountRows[i].roi = <<2, 1>>
          /\ AccountRows[i].gmv = <<250, 1>>
          /\ AccountRows[i].spend = <<100, 1>>
          /\ AccountRows[i].deviation = <<25, 1>>
    /\ \E i \in 1..Len(AccountRows) :
          /\ AccountRows[i].roi = <<2, 1>>
          /\ ActualsOf(AccountRows[i]) = <<>>
          /\ AccountRows[i].deviation = <<0, 1>>

\* the rows of the month whose account has the digit sequence of the
\* account of goal row r
SameDigitsAs(r) ==
    SelectSeq(MonthRows(ret, target_date),
              LAMBDA x : RemoveNonDigits(x.acct) = RemoveNonDigits(r.acct))

\* C22: a goal row whose account string has the digit sequence of an account
\* with rows in the month carries that account's cumulative spend and GMV
C22_GoalJoinByDigits ==
    pc = "tab6_done" =>
        \A i \in 1..Len(AccountRows) :
            LET a == SameDigitsAs(AccountRows[i])
            IN a # <<>> =>
                /\ AccountRows[i].spend = RSum([j \in 1..Len(a) |-> a[j].cost])
                /\ AccountRows[i].gmv = RSum([j \in 1..Len(a) |-> a[j].val])

ColumnSum(c) == RSum([i \in 1..Len(AccountRows) |-> AccountRows[i][c]])

----------------------------------------------------------------------------
(* main: the page around load_data and its cache (lines 62-63, 266-288) *)

\* @st.cache_data(ttl=600): seconds an entry stays valid
TTL == 600

\* time moves in steps of half the TTL, MaxTicks steps at most
MaxTicks == 3

TickSeconds == TTL \div 2

\* an entry that never expires
CacheHitNoTtl(c, t) == c.valid

\* the decorator serves the stored result while it is younger than the TTL
CacheHit(c, t) == c.valid /\ t - c.at < TTL

\* what main shows for a record set: the warning with the retry button when
\* df.empty, the dashboard otherwise
PageFor(rows) == IF rows = <<>> THEN "no_data" ELSE "rendered"

\* the positions at which a script run has ended
Rest == {"no_data", "rendered", "stopped", "raised"}

\* main, line 272: df = load_data(), answered by the cache or by a call
MainStart ==
    /\ pc = "main"
    /\ IF CacheHit(cache, now)
       THEN /\ main_df' = cache.rows
            /\ pc' = PageFor(cache.rows)
            /\ UNCHANGED <<dataVars, cache>>
       ELSE /\ pc' = "load_manager"
            /\ sheet_names' = Unbound
            /\ manager_map' = EmptyDF
            /\ bridge_map' = EmptyMap
            /\ landing_page_map' = EmptyMap
            /\ category_direct_map' = EmptyMap
            /\ db' = NoDb
            /\ raw_df' = <<>>
            /\ ret' = <<>>
            /\ UNCHANGED <<xls, cache, main_df>>
    /\ UNCHANGED <<now, tab6Vars, viewVars, fnVars>>

\* load_data returned: the decorator stores the value, main goes on
LoadReturns ==
    /\ pc = "returned"
    /\ cache' = [valid |-> TRUE, at |-> now, rows |-> ret]
    /\ main_df' = ret
    /\ pc' = PageFor(ret)
    /\ UNCHANGED <<dataVars, now, tab6Vars, viewVars, fnVars>>

\* the retry button under the warning: st.cache_data.clear(); st.rerun()
Retry ==
    /\ pc = "no_data"
    /\ cache' = NoCache
    /\ pc' = "main"
    /\ UNCHANGED <<dataVars, now, main_df, tab6Vars, viewVars, fnVars>>

\* the sidebar refresh button: st.cache_data.clear(); st.rerun()
Refresh ==
    /\ pc = "rendered"
    /\ cache' = NoCache
    /\ pc' = "main"
    /\ UNCHANGED <<dataVars, now, main_df, tab6Vars, viewVars, fnVars>>

\* any other interaction, or a reload of the page, runs the script again
Rerun ==
    /\ pc \in Rest
    /\ pc' = "main"
    /\ UNCHANGED <<dataVars, pageVars, tab6Vars, viewVars, fnVars>>

\* time passes between two script runs
Tick ==
    /\ pc \in Rest
    /\ now < MaxTicks * TickSeconds
    /\ now' = now + TickSeconds
    /\ UNCHANGED <<pc, dataVars, cache, main_df, tab6Vars, viewVars, fnVars>>

\* the workbooks of the page runs: the unreadable file, one manager sheet
MainWorkbooks ==
    {wb \in Workbooks :
        \/ ~wb.opens
        \/ /\ wb.names = <<n_Sheet1>>
           /\ wb.sheets[n_Sheet1] =
                [hdr |-> "str", cols |-> MgrCols,
                 rows |-> <<[acct |-> a_123, mgr |-> p_Ann]>>]}

InitMain ==
    /\ NoPage /\ NoView /\ NoCall
    /\ target_date = NoDate
    /\ goal_csv = NoGoalFile
    /\ final_view = <<>>
    /\ pc = "main"
    /\ xls \in MainWorkbooks
    /\ sheet_names = Unbound
    /\ manager_map = EmptyDF
    /\ bridge_map = EmptyMap
    /\ landing_page_map = EmptyMap
    /\ category_direct_map = EmptyMap
    /\ db = NoDb
    /\ raw_df = <<>>
    /\ ret = <<>>

NextMain ==
    \/ MainStart
    \/ LoadManagerMap
    \/ LoadBridgeMap
    \/ QueryMetrics
    \/ Enrich
    \/ LoadReturns
    \/ Retry
    \/ Refresh
    \/ Rerun
    \/ Tick

SpecMain == InitMain /\ [][NextMain]_vars

\* the ways the metrics store fails
StoreFailures == {"conn_fail", "sql_error", "bad_date"}

\* C11: whenever reaching or querying the metrics store has failed (the
\* connection, the SQL or the date conversion), load_data returns the empty
\* record set and main shows the no-data warning with its retry button: the
\* run never ends anywhere else
C11_StoreFailureGivesNoData ==
    db.status \in StoreFailures =>
        \/ pc = "returned" /\ ret = <<>>
        \/ pc = "no_data" /\ main_df = <<>>
        \/ pc = "main"

\* C12: the cached result changes only as a whole (cleared by a button, or
\* replaced by a full recomputation once it is cleared or older than 600 s);
\* a page load with a valid entry younger than 600 s serves that entry and
\* runs no part of the pipeline, any other page load starts the pipeline at
\* its first step, the lookup tables
C12_WholeInvalidation ==
    [][/\ cache' # cache =>
            \/ cache' = NoCache /\ pc \in {"no_data", "rendered"}
            \/ /\ ~(cache.valid /\ now - cache.at < 600)
               /\ pc = "returned"
               /\ cache' = [valid |-> TRUE, at |-> now, rows |-> ret]
       /\ pc = "main" /\ cache.valid /\ now - cache.at < 600 =>
            /\ main_df' = cache.rows
            /\ cache' = cache
            /\ pc' \in Rest
       /\ pc = "main" /\ ~(cache.valid /\ now - cache.at < 600) =>
            /\ pc' = "load_manager"
            /\ manager_map' = EmptyDF /\ bridge_map' = EmptyMap
            /\ db' = NoDb]_vars

\* the pipeline runs again while an entry older than 600 s is still stored
C12_Witness ==
    /\ pc = "enrich"
    /\ cache.valid
    /\ now - cache.at >= 600
    /\ cache.rows # <<>>


\* C21: a page load that follows a load whose query failed (the SQL or the
\* date conversion raised, so load_data returned the empty set) runs the
\* pipeline, and so the query, again: the empty set is not taken from the
\* cache, whether or not retry was pressed and however young the entry is
C21_FailedLoadNotCached ==
    [][pc = "main" /\ db.status \in {"sql_error", "bad_date"}
       => pc' = "load_manager"]_vars

----------------------------------------------------------------------------
(* The key normalisations on their own (lines 92, 119, 203, 228) *)

\* longest input string
MaxStrLen == 5

\* the characters of the inputs: a capital, two kinds of whitespace, a digit,
\* a separator
NormChars == {"A", " ", "\t", "1", "-"}

\* the cells normalised: every string up to MaxStrLen, and the blank cell
NormInputs == SeqUpTo(NormChars, MaxStrLen) \cup {NaN}

\* the pipeline has not run
NoLoad ==
    /\ xls = [opens |-> FALSE, names |-> <<>>, sheets |-> <<>>]
    /\ sheet_names = Unbound
    /\ manager_map = EmptyDF
    /\ bridge_map = EmptyMap
    /\ landing_page_map = EmptyMap
    /\ category_direct_map = EmptyMap
    /\ db = NoDb
    /\ raw_df = <<>>
    /\ ret = <<>>

\* tab6 has not run
NoGoal == target_date = NoDate /\ goal_csv = NoGoalFile /\ final_view = <<>>

\* each normalisation applied to the cell, and again to its own result
Normalize ==
    /\ pc = "norm"
    /\ res' = [sheet  |-> NormCampaignSheet(arg),
               sheet2 |-> NormCampaignSheet(NormCampaignSheet(arg)),
               row    |-> NormCampaignRow(arg),
               row2   |-> NormCampaignRow(NormCampaignRow(arg)),
               id     |-> JoinId(arg),
               id2    |-> JoinId(JoinId(arg))]
    /\ pc' = "norm_done"
    /\ UNCHANGED <<dataVars, tab6Vars, pageVars, viewVars, arg>>

InitNorm ==
    /\ NoLoad /\ NoGoal /\ NoPage /\ NoView
    /\ pc = "norm"
    /\ arg \in NormInputs
    /\ res = <<>>

NextNorm == Normalize

SpecNorm == InitNorm /\ [][NextNorm]_vars

\* C13: normalising an already normalised key changes nothing, for the
\* campaign key as the sheet side and as the row side compute it and for the
\* account join key
C13_NormalizeIdempotent ==
    pc = "norm_done" =>
        /\ res.sheet2 = res.sheet
        /\ res.row2 = res.row
        /\ res.id2 = res.id

\* a cell with a capital, a whitespace run and non-digits was normalised
C13_Witness ==
    /\ pc = "norm_done"
    /\ arg = <<"A", " ", "\t", "1", " ">>
    /\ res.sheet = <<"a", " ", "1">>
    /\ res.row = <<"a", " ", "1">>
    /\ res.id = <<"1">>


----------------------------------------------------------------------------
(* The manager join on account strings written in several ways
   (lines 91-94, 202-203, 212-218) *)

a_123tail == a_123 \o <<"-", "1">>

\* one account id written with separators, without them, and followed by a
\* further digit; an account string without digits
AcctNames == {a_123, a_123plain, a_123tail, a_zz}

\* manager sheet rows for the separated and the longer spelling
AcctMgrRows ==
    { [acct |-> a_123,     mgr |-> p_Ann],
      [acct |-> a_123tail, mgr |-> p_Bob] }

AcctRawRows ==
    {[day |-> 1, acct |-> a, camp |-> c_pm,
      cost |-> Num(100), conv |-> Num(1), val |-> Num(250)] : a \in AcctNames}

\* load_data after its query: the manager map read, the rows coerced
InitAcct ==
    /\ NoGoal /\ NoPage /\ NoView /\ NoCall
    /\ pc = "enrich"
    /\ \E m \in SeqUpTo(AcctMgrRows, MaxMgrRows),
          rs \in SeqUpTo(AcctRawRows, MaxRawRows) \ {<<>>} :
        /\ xls = [opens |-> TRUE, names |-> <<n_Manager>>,
                  sheets |-> (n_Manager :>
                      [hdr |-> "str", cols |-> MgrCols, rows |-> m])]
        /\ sheet_names = xls.names
        /\ manager_map = ReadManagerMap(xls)
        /\ db = [status |-> "ok", rows |-> rs]
        /\ raw_df = CleanRaw(rs)
    /\ bridge_map = EmptyMap
    /\ landing_page_map = EmptyMap
    /\ category_direct_map = EmptyMap
    /\ ret = <<>>

NextAcct == Enrich

SpecAcct == InitAcct /\ [][NextAcct]_vars

\* position of the first substring ddd-ddd-dddd of s, 0 when there is none
FirstPatternAt(s) ==
    LET shape == <<"d", "d", "d", "-", "d", "d", "d", "-", "d", "d", "d", "d">>
        at(i) == \A k \in 1..12 :
                    IF shape[k] = "d" THEN s[i + k - 1] \in Digits
                    ELSE s[i + k - 1] = "-"
        hits == {i \in 1..(Len(s) - 11) : at(i)}
    IN IF hits = {} THEN 0 ELSE CHOOSE i \in hits : \A j \in hits : i =< j

\* the key as the first ddd-ddd-dddd substring, else the stripped string
FirstPatternKey(s) ==
    IF FirstPatternAt(s) = 0 THEN StrStrip(s)
    ELSE SubSeq(s, FirstPatternAt(s), FirstPatternAt(s) + 11)

\* C14 as stated: the join key is the first ddd-ddd-dddd substring of the
\* account string (the stripped string when there is none), so two returned
\* records whose account strings have the same first ddd-ddd-dddd substring
\* carry the same manager
C14_FirstPatternKey ==
    pc = "returned" =>
        \A i, j \in 1..Len(ret) :
            /\ FirstPatternAt(ret[i].acct) # 0
            /\ FirstPatternAt(ret[j].acct) # 0
            /\ FirstPatternKey(ret[i].acct) = FirstPatternKey(ret[j].acct)
            => ret[i].mgr = ret[j].mgr

\* C14 amended: the join key is the account string with every non-digit
\* removed, a record carries the manager of the first sheet row with the same
\* digit sequence ("Unknown" when there is none), so two returned records
\* with the same digit sequence carry the same manager
C14_DigitSequenceKey ==
    pc = "returned" =>
        /\ \A i \in 1..Len(ret) :
            LET key == RemoveNonDigits(ret[i].acct)
                sheet == xls.sheets[n_Manager].rows
                hits == {k \in 1..Len(sheet) :
                            RemoveNonDigits(sheet[k].acct) = key}
            IN /\ ret[i].join_id = key
               /\ hits = {} => ret[i].mgr = s_Unknown
               /\ hits # {} =>
                    ret[i].mgr =
                        sheet[CHOOSE k \in hits : \A l \in hits : k =< l].mgr
        /\ \A i, j \in 1..Len(ret) :
            RemoveNonDigits(ret[i].acct) = RemoveNonDigits(ret[j].acct)
            => ret[i].mgr = ret[j].mgr

\* with only "123-456-7890" on the sheet, "1234567890" resolves to its
\* manager and "123-456-7890-1" to "Unknown"
C14_Witness ==
    /\ pc = "returned"
    /\ xls.sheets[n_Manager].rows = <<[acct |-> a_123, mgr |-> p_Ann]>>
    /\ Len(ret) = 2
    /\ ret[1].acct = a_123plain /\ ret[1].mgr = p_Ann
    /\ ret[2].acct = a_123tail /\ ret[2].mgr = s_Unknown


----------------------------------------------------------------------------
(* main: sidebar filters and the tabs 1-4 (lines 290-511) *)

\* the CJK word for "overall" (two characters), the "all managers" option
s_All == <<"*", "*">>

\* the column values of a frame, as a set
Col(rows, c) == {rows[i][c] : i \in 1..Len(rows)}

\* the multiselect options of the three filters, each computed from the
\* rows the filters before it let through
DateFiltered(rows, s) ==
    SelectSeq(rows, LAMBDA r : r.day >= s.start /\ r.day =< s.end)

ManagerFiltered(rows, s) ==
    IF s_All \in s.managers THEN DateFiltered(rows, s)
    ELSE SelectSeq(DateFiltered(rows, s), LAMBDA r : r.mgr \in s.managers)

CategoryFiltered(rows, s) ==
    SelectSeq(ManagerFiltered(rows, s), LAMBDA r : r.cat \in s.categories)

\* final_df
FinalDf(rows, s) ==
    SelectSeq(CategoryFiltered(rows, s), LAMBDA r : r.acct \in s.accounts)

\* the selections the sidebar can hold over the rows
Selections(rows) ==
    LET days == Col(rows, "day")
        S1 == {[start |-> a, end |-> b, managers |-> {}, categories |-> {},
                accounts |-> {}] : a \in days, b \in days}
        S2 == UNION {{[s EXCEPT !.managers = m] :
                        m \in SUBSET ({s_All}
                                 \cup Col(DateFiltered(rows, s), "mgr"))} :
                     s \in {x \in S1 : x.start =< x.end}}
        S3 == UNION {{[s EXCEPT !.categories = c] :
                        c \in SUBSET Col(ManagerFiltered(rows, s), "cat")} :
                     s \in S2}
    IN UNION {{[s EXCEPT !.accounts = a] :
                 a \in SUBSET Col(CategoryFiltered(rows, s), "acct")} :
              s \in S3}

\* the previous period: the window of equal length ending the day before
\* start_date, filtered with isin on the three selections
PrevDf(rows, s) ==
    LET days_diff == (s.end - s.start) + 1
        prev_start == s.start - days_diff
        prev_end == s.start - 1
    IN SelectSeq(rows, LAMBDA r :
          /\ r.day >= prev_start /\ r.day =< prev_end
          /\ r.mgr \in s.managers
          /\ r.cat \in s.categories
          /\ r.acct \in s.accounts)

SumOf(rows, c) == RSum([i \in 1..Len(rows) |-> rows[i][c]])

\* x * 100
Percent(x) == IF IsFinite(x) THEN Norm(100 * x[1], x[2]) ELSE x

\* ((cur - prev) / prev) * 100 if prev > 0 else 0
Delta(cur, prev) ==
    IF RGt(prev, Zero) THEN Percent(RDiv(RSub(cur, prev), prev)) ELSE Zero

\* tab1: totals of the current and of the previous period, and the deltas
CommandCenter(rows, s) ==
    LET cur == FinalDf(rows, s)
        prev == PrevDf(rows, s)
        current_spend == SumOf(cur, "cost")
        current_val == SumOf(cur, "val")
        prev_spend == SumOf(prev, "cost")
        prev_val == SumOf(prev, "val")
        current_roas == Roas(current_spend, current_val)
        prev_roas == Roas(prev_spend, prev_val)
    IN [current_spend |-> current_spend, current_val |-> current_val,
        current_roas |-> current_roas,
        prev_rows |-> {prev[i].src : i \in 1..Len(prev)},
        prev_spend |-> prev_spend, prev_roas |-> prev_roas,
        delta_spend |-> Delta(current_spend, prev_spend),
        delta_roas |-> Delta(current_roas, prev_roas)]

\* groupby(cols).agg(sum) of spend and value; the groups stand in order of
\* first appearance (their order plays no part in what the tabs show)
GroupBy(rows, cols) ==
    LET key(r) == [i \in 1..Len(cols) |-> r[cols[i]]]
        keys == Unique([i \in 1..Len(rows) |-> key(rows[i])])
    IN [k \in 1..Len(keys) |->
           LET g == SelectSeq(rows, LAMBDA r : key(r) = keys[k])
           IN [key |-> keys[k], cost |-> SumOf(g, "cost"),
               val |-> SumOf(g, "val")]]

\* tab1: daily_trend, ROAS = value / spend
DailyTrend(rows) ==
    LET g == GroupBy(rows, <<"day">>)
    IN [i \in 1..Len(g) |-> [ROAS |-> RDiv(g[i].val, g[i].cost)] @@ g[i]]

\* tab2: manager_perf, ROAS = value / spend
ManagerPerf(rows) ==
    LET g == GroupBy(rows, <<"mgr">>)
    IN [i \in 1..Len(g) |-> [ROAS |-> RDiv(g[i].val, g[i].cost)] @@ g[i]]

\* replace([np.inf, -np.inf], 0)
ReplaceInf(x) == IF x = <<1, 0>> \/ x = <<-1, 0>> THEN Zero ELSE x

\* tab3: pivot_df over one row dimension
PivotDf(rows, dim) ==
    LET g == GroupBy(rows, <<dim>>)
    IN [i \in 1..Len(g) |->
           [ROAS |-> ReplaceInf(RDiv(g[i].val, g[i].cost))] @@ g[i]]

\* tab4: granular_perf, ROAS guarded on the summed spend
GranularPerf(rows) ==
    LET g == GroupBy(rows, <<"mgr", "cat", "acct", "group_id", "camp", "grp">>)
    IN [i \in 1..Len(g) |-> [ROAS |-> Roas(g[i].cost, g[i].val)] @@ g[i]]

\* head(20): length of each leaderboard
TopN == 20

\* ROAS below which a group is an underperformer: 1.7
RedRoas == <<17, 10>>

\* ROAS above which a group is a top performer: 2.0
BlackRoas == <<2, 1>>

\* sort_values(c, ascending=False); equal values keep their order
RECURSIVE SortDesc(_, _)
SortDesc(xs, c) ==
    IF xs = <<>> THEN <<>>
    ELSE LET x == Head(xs)
             rest == SortDesc(Tail(xs), c)
             n == Cardinality({i \in 1..Len(rest) : RGt(rest[i][c], x[c])})
         IN SubSeq(rest, 1, n) \o <<x>> \o SubSeq(rest, n + 1, Len(rest))

\* DataFrame.head(n)
HeadN(xs, n) == SubSeq(xs, 1, IF Len(xs) < n THEN Len(xs) ELSE n)

\* the underperformers ranked by ROAS instead of by spend
RedListByRoas(perf) ==
    HeadN(SortDesc(SelectSeq(perf, LAMBDA g :
                       RLt(g.ROAS, RedRoas) /\ RGt(g.cost, Zero)), "ROAS"),
          TopN)

\* red_list: ROAS < 1.7 and spend > 0, by spend descending, the first 20
RedList(perf) ==
    HeadN(SortDesc(SelectSeq(perf, LAMBDA g :
                       RLt(g.ROAS, RedRoas) /\ RGt(g.cost, Zero)), "cost"),
          TopN)

\* black_list: ROAS > 2.0, by ROAS descending, the first 20
BlackList(perf) ==
    HeadN(SortDesc(SelectSeq(perf, LAMBDA g : RGt(g.ROAS, BlackRoas)), "ROAS"),
          TopN)

\* the row dimensions offered to the pivot
PivotDims == {"mgr", "day"}

\* one run of main below the data check: the sidebar selection, the tabs
RenderTabs ==
    /\ pc = "rendered"
    /\ \E s \in Selections(main_df), dim \in PivotDims :
        /\ sel' = [pivot_rows |-> dim] @@ s
        /\ view' =
            LET final_df == FinalDf(main_df, s)
                perf == GranularPerf(final_df)
            IN [final_rows |-> {final_df[i].src : i \in 1..Len(final_df)},
                tab1 |-> CommandCenter(main_df, s),
                daily_trend |-> DailyTrend(final_df),
                manager_perf |-> ManagerPerf(final_df),
                pivot_df |-> PivotDf(final_df, dim),
                granular_perf |-> perf,
                red_list |-> RedList(perf),
                black_list |-> BlackList(perf)]
    /\ pc' = "tabs"
    /\ UNCHANGED <<dataVars, tab6Vars, pageVars, fnVars>>


----------------------------------------------------------------------------
(* tab4 over more groups than a leaderboard holds (lines 476-511) *)

\* number of distinct campaigns in the queried rows
MaxGroups == 22

DigitSeq == <<"0", "1", "2", "3", "4", "5", "6", "7", "8", "9">>

\* campaign names c01, c02, ...
CampName(i) == <<"c", DigitSeq[(i \div 10) + 1], DigitSeq[(i % 10) + 1]>>

\* spend and value of row i under five spreads: ROAS 1 everywhere; ROAS
\* above 3 everywhere; a mix with zero spends; ROAS 2 exactly, spend
\* falling to 0 and below; ROAS 3 and 1 in turn
BoardCost(i, p) ==
    CASE p = 1 -> i
      [] p = 2 -> 1 + (i % 3)
      [] p = 3 -> i % 4
      [] p = 4 -> (MaxGroups + 1) - i
      [] OTHER -> i

BoardVal(i, p) ==
    CASE p = 1 -> i
      [] p = 2 -> 3 * (1 + (i % 3)) + i
      [] p = 3 -> (i * 5) % 9
      [] p = 4 -> 2 * ((MaxGroups + 1) - i)
      [] OTHER -> IF i % 2 = 0 THEN 3 * i ELSE i

\* n queried rows of one account on one day; rows past MaxGroups fall into
\* the first campaigns again
BoardRows(n, p) ==
    [i \in 1..n |->
        [day |-> 1, acct |-> a_22, camp |-> CampName(((i - 1) % MaxGroups) + 1),
         cost |-> Num(BoardCost(i, p)), conv |-> Num(0),
         val |-> Num(BoardVal(i, p))]]

\* main with the data loaded (no workbook) and shown
InitBoard ==
    /\ NoGoal /\ NoView /\ NoCall
    /\ pc = "rendered"
    /\ xls = [opens |-> FALSE, names |-> <<>>, sheets |-> <<>>]
    /\ sheet_names = Unbound
    /\ manager_map = EmptyDF
    /\ bridge_map = EmptyMap
    /\ landing_page_map = EmptyMap
    /\ category_direct_map = EmptyMap
    /\ \E n \in 1..(MaxGroups + 2), p \in 1..5 :
        db = [status |-> "ok", rows |-> BoardRows(n, p)]
    /\ raw_df = CleanRaw(db.rows)
    /\ ret = Enriched
    /\ cache = [valid |-> TRUE, at |-> 0, rows |-> ret]
    /\ now = 0
    /\ main_df = ret

NextBoard == RenderTabs

SpecBoard == InitBoard /\ [][NextBoard]_vars

\* the groups of granular_perf that qualify for each leaderboard
RedQualifies(g) == g.cost[1] > 0 /\ 10 * g.ROAS[1] < 17 * g.ROAS[2]

BlackQualifies(g) == g.ROAS[1] > 2 * g.ROAS[2]

\* C15: each leaderboard holds at most 20 groups, all of them qualifying
\* groups of the filtered rows (underperformers: summed spend > 0 and
\* ROAS < 1.7; top performers: ROAS > 2.0); it holds every qualifying group
\* when there are at most 20, else no qualifying group left out has more
\* spend (underperformers) or a higher ROAS (top performers) than one that
\* is in; no group is on both boards
C15_Leaderboards ==
    pc = "tabs" =>
        LET perf == Range(view.granular_perf)
            red == Range(view.red_list)
            black == Range(view.black_list)
            redAll == {g \in perf : RedQualifies(g)}
            blackAll == {g \in perf : BlackQualifies(g)}
        IN /\ Len(view.red_list) = Cardinality(red)
           /\ Len(view.black_list) = Cardinality(black)
           /\ red \subseteq redAll /\ black \subseteq blackAll
           /\ Cardinality(red) = (IF Cardinality(redAll) < 20
                                  THEN Cardinality(redAll) ELSE 20)
           /\ Cardinality(black) = (IF Cardinality(blackAll) < 20
                                    THEN Cardinality(blackAll) ELSE 20)
           /\ \A x \in redAll \ red, y \in red : x.cost[1] =< y.cost[1]
           /\ \A x \in blackAll \ black, y \in black :
                x.ROAS[1] * y.ROAS[2] =< y.ROAS[1] * x.ROAS[2]
           /\ red \cap black = {}

\* more than 20 groups qualify as underperformers and 20 of them are on the
\* board, some group being the sum of several rows
C15_Witness ==
    /\ pc = "tabs"
    /\ Len(view.red_list) = 20
    /\ Len(db.rows) > Len(view.granular_perf)
    /\ Cardinality({g \in Range(view.granular_perf) : RedQualifies(g)}) > 20


----------------------------------------------------------------------------
(* The deduplication/merge engine, as its contract describes it *)

\* rows in the existing set and in the uploaded batch, at most
MaxMergeRows == 2

\* the metric keywords of the column classification
MetricKeywords ==
    { <<"c", "o", "s", "t">>, <<"v", "a", "l", "u", "e">>, <<"c", "p", "c">>,
      <<"c", "p", "m">>, <<"c", "t", "r">>, <<"r", "a", "t", "e">>,
      <<"c", "l", "i", "c", "k", "s">>,
      <<"i", "m", "p", "r", "e", "s", "s", "i", "o", "n", "s">>,
      <<"c", "o", "n", "v", "e", "r", "s", "i", "o", "n", "s">>,
      <<"r", "o", "a", "s">>, <<"v", "i", "e", "w">> }

\* the header of each column of the merged tables
ColumnNames ==
    [acct |-> <<"A", "c", "c", "o", "u", "n", "t">>,
     camp |-> <<"C", "a", "m", "p", "a", "i", "g", "n">>,
     cost |-> <<"C", "o", "s", "t">>,
     ctr  |-> <<"C", "T", "R">>]

\* a column is a metric when its header holds a keyword, case-insensitively
IsMetric(c) == \E kw \in MetricKeywords : Contains(StrLower(ColumnNames[c]), kw)

DimensionCols == {c \in DOMAIN ColumnNames : ~IsMetric(c)}

MetricCols == {c \in DOMAIN ColumnNames : IsMetric(c)}

\* composite dedup key: the dimension values, string-cast and stripped
DedupKey(r) == [c \in DimensionCols |-> StrStrip(AsTypeStr(r[c]))]

\* the account id of the row holds a digit
AccountValid(r) == \E i \in 1..Len(r.acct) : r.acct[i] \in Digits

\* collapse by key keeping the first occurrence
RECURSIVE KeepFirstByKey(_)
KeepFirstByKey(rows) ==
    IF rows = <<>> THEN <<>>
    ELSE LET r == KeepFirstByKey(SubSeq(rows, 1, Len(rows) - 1))
             x == rows[Len(rows)]
         IN IF \E i \in 1..Len(r) : DedupKey(r[i]) = DedupKey(x)
            THEN r ELSE Append(r, x)

\* collapse by key keeping the last occurrence
RECURSIVE KeepLastByKey(_)
KeepLastByKey(rows) ==
    IF rows = <<>> THEN <<>>
    ELSE LET x == Head(rows)
             r == KeepLastByKey(Tail(rows))
         IN IF \E i \in 1..Len(r) : DedupKey(r[i]) = DedupKey(x)
            THEN r ELSE <<x>> \o r

\* the merged record set and the reported counts
Merge(existing, batch) ==
    LET all == existing \o batch
        merged == KeepLastByKey(SelectSeq(all, AccountValid))
    IN [rows |-> merged, before |-> Len(all), after |-> Len(merged),
        eliminated |-> Len(all) - Len(merged)]

\* one account written with and without a leading blank, under different
\* metric values, and an account id without a digit
MergeRows ==
    { [acct |-> <<"1">>,      camp |-> c_pm, cost |-> <<"5">>, ctr |-> <<"1">>],
      [acct |-> <<" ", "1">>, camp |-> c_pm, cost |-> <<"6">>, ctr |-> <<"1">>],
      [acct |-> <<"1">>,      camp |-> c_pm, cost |-> <<"7">>, ctr |-> <<"2">>],
      [acct |-> <<"z">>,      camp |-> c_pm, cost |-> <<"5">>, ctr |-> <<"1">>] }

MergeBatches ==
    /\ pc = "merge"
    /\ res' = Merge(arg.existing, arg.batch)
    /\ pc' = "merge_done"
    /\ UNCHANGED <<dataVars, tab6Vars, pageVars, viewVars, arg>>

InitMerge ==
    /\ NoLoad /\ NoGoal /\ NoPage /\ NoView
    /\ pc = "merge"
    /\ arg \in [existing : SeqUpTo(MergeRows, MaxMergeRows),
                batch : SeqUpTo(MergeRows, MaxMergeRows)]
    /\ res = <<>>

NextMerge == MergeBatches

SpecMerge == InitMerge /\ [][NextMerge]_vars

\* the dimension values of a row as the key sees them
Dims(r) == [c \in {"acct", "camp"} |-> StrStrip(r[c])]

Metrics(r) == [c \in {"cost", "ctr"} |-> r[c]]

\* the last row of xs with the dimension values of r
LastLike(xs, r) ==
    xs[CHOOSE i \in 1..Len(xs) :
          /\ Dims(xs[i]) = Dims(r)
          /\ \A j \in (i + 1)..Len(xs) : Dims(xs[j]) # Dims(r)]

\* C16 as stated: for every combination of dimension values in the existing
\* set or the batch the merged set keeps exactly one row, with the metric
\* values of the last occurrence
C16_OneRowPerCombination ==
    pc = "merge_done" =>
        LET all == arg.existing \o arg.batch IN
        \A k \in 1..Len(all) :
            LET hits == {i \in 1..Len(res.rows) :
                            Dims(res.rows[i]) = Dims(all[k])}
            IN /\ Cardinality(hits) = 1
               /\ \A i \in hits :
                    Metrics(res.rows[i]) = Metrics(LastLike(all, all[k]))

\* C16 amended: rows whose account id holds no digit are left out; for every
\* combination of stripped dimension values of the other rows the merged set
\* keeps exactly one row, with the metric values of the last occurrence, so
\* rows that differ in metric columns only collapse; the counts reported are
\* rows before, rows after and their difference
C16_UpsertByDimensions ==
    pc = "merge_done" =>
        LET all == arg.existing \o arg.batch IN
        /\ \A k \in 1..Len(all) :
            LET hits == {i \in 1..Len(res.rows) :
                            Dims(res.rows[i]) = Dims(all[k])}
                digit == \E n \in 1..Len(all[k].acct) :
                            all[k].acct[n] \in Digits
            IN /\ ~digit => hits = {}
               /\ digit =>
                    /\ Cardinality(hits) = 1
                    /\ \A i \in hits :
                        Metrics(res.rows[i]) = Metrics(LastLike(all, all[k]))
        /\ \A i \in 1..Len(res.rows) : \E k \in 1..Len(all) : res.rows[i] = all[k]
        /\ res.before = Len(all) /\ res.after = Len(res.rows)
        /\ res.eliminated = res.before - res.after

\* an existing row overwritten by a batch row that differs in its metrics
\* and in the blank before its account id
C16_Witness ==
    /\ pc = "merge_done"
    /\ arg.existing = <<[acct |-> <<"1">>, camp |-> c_pm,
                         cost |-> <<"5">>, ctr |-> <<"1">>]>>
    /\ arg.batch = <<[acct |-> <<" ", "1">>, camp |-> c_pm,
                      cost |-> <<"6">>, ctr |-> <<"1">>]>>
    /\ res.rows = arg.batch
    /\ res.eliminated = 1


----------------------------------------------------------------------------
(* The tabs over rows of several days and managers (lines 290-414) *)

\* queried rows: three days, two accounts, a day and a manager whose spend
\* is zero, a negative spend, a row without spend or value
ViewRawRows ==
    { [day |-> 1, acct |-> a_123, camp |-> c_pm,
       cost |-> Num(100), conv |-> Num(1), val |-> Num(250)],
      [day |-> 2, acct |-> a_123, camp |-> c_pm,
       cost |-> Num(0), conv |-> Num(1), val |-> Num(5)],
      [day |-> 2, acct |-> a_22, camp |-> c_pm,
       cost |-> Num(-2), conv |-> Num(0), val |-> Num(5)],
      [day |-> 3, acct |-> a_22, camp |-> c_pm,
       cost |-> Num(50), conv |-> Num(0), val |-> Num(20)],
      [day |-> 3, acct |-> a_123, camp |-> c_pm,
       cost |-> Num(0), conv |-> Num(0), val |-> Num(0)] }

\* main with the data loaded and shown: each account has its manager
InitView ==
    /\ NoGoal /\ NoView /\ NoCall
    /\ pc = "rendered"
    /\ xls = [opens |-> TRUE, names |-> <<n_Manager>>,
              sheets |-> (n_Manager :>
                  [hdr |-> "str", cols |-> MgrCols,
                   rows |-> <<[acct |-> a_123, mgr |-> p_Ann],
                              [acct |-> a_22, mgr |-> p_Bob]>>])]
    /\ sheet_names = xls.names
    /\ manager_map = ReadManagerMap(xls)
    /\ bridge_map = EmptyMap
    /\ landing_page_map = EmptyMap
    /\ category_direct_map = EmptyMap
    /\ \E rs \in SeqUpTo(ViewRawRows, MaxRawRows) \ {<<>>} :
        db = [status |-> "ok", rows |-> rs]
    /\ raw_df = CleanRaw(db.rows)
    /\ ret = Enriched
    /\ cache = [valid |-> TRUE, at |-> 0, rows |-> ret]
    /\ now = 0
    /\ main_df = ret

NextView == RenderTabs

SpecView == InitView /\ [][NextView]_vars

\* an aggregated ROAS is sound: finite, and 0 when the summed spend is
\* zero or negative
SoundRoas(cost, roas) == roas[2] # 0 /\ (cost[1] =< 0 => roas = <<0, 1>>)

\* C17: in the command-center totals, the daily trend, the manager matrix,
\* the pivot table and the leaderboard groups every aggregated ROAS is a
\* number, and it is 0 when the summed spend is zero or negative
C17_AggregatedRoasGuarded ==
    pc = "tabs" =>
        /\ SoundRoas(view.tab1.current_spend, view.tab1.current_roas)
        /\ SoundRoas(view.tab1.prev_spend, view.tab1.prev_roas)
        /\ \A i \in 1..Len(view.daily_trend) :
            SoundRoas(view.daily_trend[i].cost, view.daily_trend[i].ROAS)
        /\ \A i \in 1..Len(view.manager_perf) :
            SoundRoas(view.manager_perf[i].cost, view.manager_perf[i].ROAS)
        /\ \A i \in 1..Len(view.pivot_df) :
            SoundRoas(view.pivot_df[i].cost, view.pivot_df[i].ROAS)
        /\ \A i \in 1..Len(view.granular_perf) :
            SoundRoas(view.granular_perf[i].cost, view.granular_perf[i].ROAS)

\* C19: the previous period of the deltas is the set of rows of the window
\* of equal length ending the day before start_date that pass the filter
\* of the current period: any manager when the "overall" option is selected,
\* else a selected manager; a selected category; a selected account
C19_PreviousPeriodLikeCurrent ==
    pc = "tabs" =>
        LET n == (sel.end - sel.start) + 1 IN
        view.tab1.prev_rows =
            {main_df[i].src : i \in
                {k \in 1..Len(main_df) :
                    /\ main_df[k].day >= sel.start - n
                    /\ main_df[k].day =< sel.start - 1
                    /\ s_All \in sel.managers \/ main_df[k].mgr \in sel.managers
                    /\ main_df[k].cat \in sel.categories
                    /\ main_df[k].acct \in sel.accounts}}


----------------------------------------------------------------------------
(* group_id over campaigns and categories written with "_" (lines 242-258) *)

c_c == <<"c">>

c_b_c == <<"b", "_", "c">>

k_a == <<"a">>

k_a_b == <<"a", "_", "b">>

\* bridge sheet rows: campaign "c" in category "a_b", campaign "b_c" in "a"
GroupBridgeRows ==
    { [camp |-> c_c,   url |-> u_1, lp |-> l_1, cat |-> k_a_b],
      [camp |-> c_b_c, url |-> u_2, lp |-> l_2, cat |-> k_a] }

GroupRawRows ==
    {[day |-> 1, acct |-> a, camp |-> c,
      cost |-> Num(100), conv |-> Num(1), val |-> Num(250)] :
        a \in {a_22, a_zz}, c \in {c_c, c_b_c, c_pm}}

\* load_data after its query, the workbook holding the bridge sheet only
InitGroup ==
    /\ NoGoal /\ NoPage /\ NoView /\ NoCall
    /\ pc = "enrich"
    /\ \E b \in SeqUpTo(GroupBridgeRows, MaxBridgeRows),
          rs \in SeqUpTo(GroupRawRows, MaxRawRows) \ {<<>>} :
        /\ xls = [opens |-> TRUE, names |-> <<n_Bridge>>,
                  sheets |-> (n_Bridge :>
                      [hdr |-> "str", cols |-> BridgeCols, rows |-> b])]
        /\ db = [status |-> "ok", rows |-> rs]
    /\ sheet_names = xls.names
    /\ manager_map = ReadManagerMap(xls)
    /\ bridge_map = UrlMap(xls.sheets[n_Bridge].rows)
    /\ landing_page_map = LandingPageMap(xls.sheets[n_Bridge].rows)
    /\ category_direct_map = CategoryMap(xls.sheets[n_Bridge].rows)
    /\ raw_df = CleanRaw(db.rows)
    /\ ret = <<>>

NextGroup == Enrich

SpecGroup == InitGroup /\ [][NextGroup]_vars

\* C20: two returned records have the same group_id if and only if they
\* have the same account, the same category and the same campaign name
C20_GroupIdIdentifiesTriple ==
    pc = "returned" =>
        \A i, j \in 1..Len(ret) :
            ret[i].group_id = ret[j].group_id
            <=> /\ ret[i].acct = ret[j].acct
                /\ ret[i].cat = ret[j].cat
                /\ ret[i].camp = ret[j].camp

====
